---- MODULE Spec2Model ----
(***************************************************************************)
(* Supply allocation optimizer (app/utils/supply_optimizer.py).            *)
(*                                                                         *)
(* optimize_supply_allocation builds a linear program from four input      *)
(* tables, three priority maps and a list of override constraints, hands   *)
(* it to the LP solver and turns the solution into result rows.            *)
(*                                                                         *)
(* Quantities: demand and supply are whole units.  An override rate is a   *)
(* percentage (0, 50 or 100), so every vertex of the feasible polytope has *)
(* coordinates that are multiples of one half; allocations (the values of  *)
(* the LP variables and the 'allocation' column) are therefore kept in     *)
(* HALF units: an allocation a stands for a/2 units.                       *)
(***************************************************************************)
EXTENDS Integers, Sequences, FiniteSets, TLC

(***************************************************************************)
(* Bounds of the explored inputs.                                          *)
(***************************************************************************)
MaxRows == 2          \* most rows of the detailed-demand table
\* tables with two period columns
MaxDemand == 1        \* largest value of one cell of the detailed-demand table
MaxSupply == 1        \* largest total_supply of one row of the supply table
\* tables with one period column
MaxDemandOne == 3     \* largest value of one cell of the detailed-demand table
MaxSupplyOne == 4     \* largest total_supply of the row of the supply table
\* repeated calls
MaxPriority == 2      \* largest product priority that the caller chooses
MaxCalls == 3         \* number of calls
\* tables with values that are not numbers
MaxDemandWarn == 2    \* largest value of one cell of the detailed-demand table
\* a second call with one argument changed
MaxDemandVary == 2    \* largest value of one cell of the detailed-demand table
MaxSupplyVary == 2    \* largest total_supply of one row of the supply table
MaxBuild == 1         \* largest actual_build of the row of the build table

(***************************************************************************)
(* Names that occur in the explored tables.                                *)
(***************************************************************************)
\* Optional[dict]: None, or Some(dict)
None == <<>>
Some(dict) == <<dict>>
IsNone(opt) == opt = <<>>
TheDict(opt) == opt[1]
Default == "Default"
PlusProduct == "Superman Plus"
MiniProduct == "Superman Mini"
BuildProduct == "Superman"
OnlineStore == "Online Store"
AMR == "AMR"
Wk1 == "Jan-Wk1"
Wk2 == "Jan-Wk2"

\* Python's string order on the names above (used by sorted()).
NameOrder ==
  <<AMR, Default, Wk1, Wk2, OnlineStore, "Reseller Partners", "Retail Store",
    BuildProduct, MiniProduct, PlusProduct, "channel", "product", "region">>

\* 'plus' in name.lower() / 'mini' in name.lower()
HasPlus(name) == name \in {PlusProduct}
HasMini(name) == name \in {MiniProduct}
\* 'wk' in col.lower() / 'week' in col.lower()
HasWk(col) == col \in {Wk1, Wk2}
HasWeek(col) == FALSE

(***************************************************************************)
(* Python helpers.                                                         *)
(***************************************************************************)
Range(s) == {s[i] : i \in DOMAIN s}

\* sorted(list(set(names)))
Sorted(names) == SelectSeq(NameOrder, LAMBDA n : n \in names)

\* list(dict.fromkeys(s)): pandas unique() keeps the order of first appearance
RECURSIVE Unique(_)
Unique(s) ==
  IF s = <<>> THEN <<>>
  ELSE LET init == Unique(SubSeq(s, 1, Len(s) - 1))
           last == s[Len(s)]
       IN IF last \in Range(init) THEN init ELSE Append(init, last)

\* dict.get(key, default)
Get(dict, key, default) == IF key \in DOMAIN dict THEN dict[key] ELSE default

\* dict built by a comprehension over rows (keys[i] -> vals[i]): a later row
\* overwrites an earlier one with the same key
DictOfRows(keys, vals) ==
  [k \in Range(keys) |->
     vals[CHOOSE i \in DOMAIN keys :
            keys[i] = k /\ \A j \in DOMAIN keys : keys[j] = k => j <= i]]

\* sum and product of the values of a function with a finite domain
RECURSIVE SumFn(_)
SumFn(f) ==
  IF DOMAIN f = {} THEN 0
  ELSE LET e == CHOOSE e \in DOMAIN f : TRUE
       IN f[e] + SumFn([d \in (DOMAIN f) \ {e} |-> f[d]])

RECURSIVE ProdFn(_)
ProdFn(f) ==
  IF DOMAIN f = {} THEN 1
  ELSE LET e == CHOOSE e \in DOMAIN f : TRUE
       IN f[e] * ProdFn([d \in (DOMAIN f) \ {e} |-> f[d]])

Min(S) == CHOOSE m \in S : \A n \in S : m <= n
Max(S) == CHOOSE m \in S : \A n \in S : m >= n

\* the nested loops "for p in products for c in channels for r in regions
\* for w in weeks", as the sequence of the tuples in loop order
NestedLoop(ps, cs, rs, ws) ==
  LET np == Len(ps)
      nc == Len(cs)
      nr == Len(rs)
      nw == Len(ws)
  IN [i \in 1..(np * nc * nr * nw) |->
        LET k == i - 1
        IN <<ps[(k \div (nc * nr * nw)) + 1],
             cs[((k \div (nr * nw)) % nc) + 1],
             rs[((k \div nw) % nr) + 1],
             ws[(k % nw) + 1]>>]

(***************************************************************************)
(* Raw table values.  A value of a period column of the detailed-demand    *)
(* table is what the loader left there: an int, a string or a missing      *)
(* value.  kind is "int", "str" or "nan"; for a string, parses says        *)
(* whether float() accepts it and num is the number it then yields.        *)
(***************************************************************************)
IntValue(n) == [kind |-> "int", parses |-> TRUE, num |-> n]
StrValue(ok, n) == [kind |-> "str", parses |-> ok, num |-> n]
NaNValue == [kind |-> "nan", parses |-> FALSE, num |-> 0]

\* pd.notna(value)
NotNa(value) == value.kind # "nan"
\* float(value) raises ValueError
FloatRaises(value) == ~value.parses
\* float(value)
Float(value) == value.num

(***************************************************************************)
(* Explored inputs.                                                        *)
(***************************************************************************)
SeqsUpTo(S, n) == UNION {[1..k -> S] : k \in 0..n}

DemandProducts == {PlusProduct, MiniProduct}
DemandChannels == {OnlineStore}
DemandRegions == {AMR}

\* detailed-demand tables with the period columns week_cols and at most
\* MaxRows rows, every value an int of 0..max_value
DemandTables(week_cols, max_value) ==
  [columns : {<<"product", "channel", "region">> \o week_cols},
   rows : SeqsUpTo([product : DemandProducts, channel : DemandChannels,
                    region : DemandRegions,
                    vals : [Range(week_cols) -> {IntValue(n) : n \in 0..max_value}]],
                   MaxRows)]

\* supply tables with at most one row per period of week_cols, in period order
RECURSIVE SupplyTables(_, _)
SupplyTables(week_cols, max_value) ==
  IF week_cols = <<>> THEN {<<>>}
  ELSE LET rest == SupplyTables(Tail(week_cols), max_value)
       IN rest \cup {<<[week |-> Head(week_cols), total_supply |-> n]>> \o t :
                       n \in 0..max_value, t \in rest}

BuildTables ==
  {<<>>, <<[week |-> Wk1, product |-> BuildProduct, actual_build |-> 1]>>}

ForecastTable ==
  [columns |-> <<"product", Wk1, Wk2>>,
   rows |-> <<[product |-> PlusProduct, vals |-> [w \in {Wk1, Wk2} |-> 1]]>>]

\* the three priority maps of one call, each None or a dict: all left out
\* (the defaults rank the Plus product above the Mini product), or maps that
\* give both products the same composite priority, the product map listing
\* one product only and the channel map leaving out 'Default'
PriorityArgs ==
  {[product |-> None, channel |-> None, region |-> None],
   [product |-> Some([p \in {MiniProduct} |-> 5]),
    channel |-> Some([c \in {OnlineStore} |-> 3]),
    region |-> None]}

\* override rates, in percent (the page's slider runs from 0.0 to 1.0)
Rates == {0, 50, 100}

Overrides ==
  [product : {MiniProduct}, channel : {OnlineStore}, region : {AMR},
   week : {Wk1}, satisfaction_rate : Rates]

ConstraintLists == {<<>>} \cup {<<o>> : o \in Overrides}

\* product priority maps that name both products, for repeated calls
RerunPriorityArgs ==
  {[product |-> Some(f), channel |-> None, region |-> None] :
     f \in [DemandProducts -> 1..MaxPriority]}

(***************************************************************************)
(* State.  data, arg_* and special_constraints are the caller's objects;   *)
(* the other variables are the locals of optimize_supply_allocation.       *)
(***************************************************************************)
VARIABLES
  data,                  \* the dict of the four tables
  arg_priorities,        \* the caller's product/channel/region priority maps
  special_constraints,   \* the caller's list of override constraints
  pc,                    \* position in optimize_supply_allocation
  products, channels, regions, weeks,   \* index sets (sorted lists)
  product_priorities, channel_priorities, region_priorities,
  total_supply,          \* dict week -> total_supply
  cumulative_build,      \* dict (product, week) -> actual_build
  demand,                \* dict (p, c, r, w) -> demand
  warnings,              \* number of st.warning calls
  priority,              \* dict (p, c, r) -> composite priority
  prob,                  \* the LpProblem: objective terms and constraints
  status,                \* LpStatus[prob.status] after the solve
  x,                     \* values of the LP variables (half units)
  errors,                \* number of st.error calls
  results,               \* the returned table, as the sequence of its rows
  solved,                \* what the solver answered to each problem so far
  calls,                 \* the arguments of this call; the finished calls
  summary,               \* the dict that get_summary_stats returned
  file,                  \* the lines of the data file, each a list of fields
  source,                \* where data came from: "caller", "file" or "mock"
  raised                 \* the exception that ended the run, if any

inputs == <<data, arg_priorities, special_constraints>>
locals ==
  <<products, channels, regions, weeks, product_priorities, channel_priorities,
    region_priorities, total_supply, cumulative_build, demand, warnings,
    priority, prob, status, x, errors, results>>
env == <<solved, calls>>
page == <<file, source, raised>>
vars == <<inputs, pc, locals, env, summary, page>>

EmptyProb == [variables |-> <<>>, lowBound |-> 0, objective |-> <<>>, constraints |-> <<>>]

\* the locals before the function body has run
Unset ==
  /\ products = <<>> /\ channels = <<>> /\ regions = <<>> /\ weeks = <<>>
  /\ product_priorities = <<>> /\ channel_priorities = <<>>
  /\ region_priorities = <<>>
  /\ total_supply = <<>> /\ cumulative_build = <<>> /\ demand = <<>>
  /\ warnings = 0 /\ priority = <<>> /\ prob = EmptyProb
  /\ status = "Not Solved" /\ x = <<>> /\ errors = 0 /\ results = <<>>

\* the caller's tables: two periods with small quantities, or one period
\* with larger ones
TwoPeriodData ==
  [total_supply : SupplyTables(<<Wk1, Wk2>>, MaxSupply),
   actual_build : BuildTables,
   demand_forecast : {ForecastTable},
   customer_demand : DemandTables(<<Wk1, Wk2>>, MaxDemand)]

OnePeriodData ==
  [total_supply : SupplyTables(<<Wk1>>, MaxSupplyOne),
   actual_build : BuildTables,
   demand_forecast : {ForecastTable},
   customer_demand : DemandTables(<<Wk1>>, MaxDemandOne)]

\* a first call of optimize_supply_allocation
FirstCall ==
  /\ pc = "extract"
  /\ Unset
  /\ solved = <<>>
  /\ calls = [args |-> inputs, finished |-> <<>>]
  /\ summary = <<>>
  /\ file = <<>> /\ source = "caller" /\ raised = <<>>

Init ==
  /\ data \in TwoPeriodData \cup OnePeriodData
  /\ arg_priorities \in PriorityArgs
  /\ special_constraints \in ConstraintLists
  /\ FirstCall

(***************************************************************************)
(* 1-2. Extract the tables and define the index sets.                      *)
(***************************************************************************)
Column(rows, name) == [i \in DOMAIN rows |-> rows[i][name]]

\* the column filter of the period columns of the detailed-demand table
IsDemandWeekCol(col) ==
  HasWk(col) \/ (HasWeek(col) /\ col \notin {"product", "channel", "region"})

\* the column filter of the period columns of the demand-forecast table
IsForecastWeekCol(col) == HasWk(col) \/ (HasWeek(col) /\ col # "product")

\* A faulty variant: 'Default' is not added.
WithoutDefault(names) == names

WithDefault(names) == IF Default \in Range(names) THEN names ELSE Append(names, Default)

ProductsOf(d) ==
  LET products_from_demand ==
        IF d.customer_demand.rows # <<>>
        THEN Unique(Column(d.customer_demand.rows, "product")) ELSE <<>>
      products_from_build ==
        IF d.actual_build # <<>>
        THEN Unique(Column(d.actual_build, "product")) ELSE <<>>
  IN Sorted(Range(products_from_demand \o products_from_build))

ChannelsOf(d) ==
  LET fromDemand ==
        IF d.customer_demand.rows # <<>>
        THEN Unique(Column(d.customer_demand.rows, "channel")) ELSE <<>>
  IN Sorted(Range(WithDefault(fromDemand)))

RegionsOf(d) ==
  LET fromDemand ==
        IF d.customer_demand.rows # <<>>
        THEN Unique(Column(d.customer_demand.rows, "region")) ELSE <<>>
  IN Sorted(Range(WithDefault(fromDemand)))

WeeksOf(d) ==
  IF d.customer_demand.rows # <<>>
  THEN SelectSeq(d.customer_demand.columns, IsDemandWeekCol)
  ELSE IF d.total_supply # <<>>
       THEN Unique(Column(d.total_supply, "week"))
       ELSE SelectSeq(d.demand_forecast.columns, IsForecastWeekCol)

\* the KeyError of the first column that the function reads of a
\* detailed-demand table with rows and that the table lacks, if any
KeyErrorOf(d) ==
  IF d.customer_demand.rows = <<>> THEN <<>>
  ELSE LET lacking == SelectSeq(<<"product", "channel", "region">>,
                                LAMBDA col : col \notin Range(d.customer_demand.columns))
       IN IF lacking = <<>> THEN <<>>
          ELSE <<[type |-> "KeyError", key |-> Head(lacking)]>>

\* the lookup of a lacking column raises, and the exception leaves the function
ExtractRaises ==
  /\ pc = "extract"
  /\ KeyErrorOf(data) # <<>>
  /\ raised' = KeyErrorOf(data)
  /\ pc' = "raised"
  /\ UNCHANGED <<inputs, env, summary, locals, file, source>>

ExtractIndexSets ==
  /\ pc = "extract"
  /\ KeyErrorOf(data) = <<>>
  /\ products' = ProductsOf(data)
  /\ channels' = ChannelsOf(data)
  /\ regions' = RegionsOf(data)
  /\ weeks' = WeeksOf(data)
  /\ pc' = "priorities"
  /\ UNCHANGED <<inputs, env, summary, page, product_priorities, channel_priorities,
                 region_priorities, total_supply, cumulative_build, demand,
                 warnings, priority, prob, status, x, errors, results>>

(***************************************************************************)
(* 3. Default priorities for the maps the caller left out.                 *)
(***************************************************************************)
DefaultProductPriorities(ps) ==
  [p \in Range(ps) |-> IF HasPlus(p) THEN 8 ELSE IF HasMini(p) THEN 3 ELSE 5]

DefaultChannelPriorities ==
  [c \in {Default, OnlineStore, "Retail Store", "Reseller Partners"} |->
     CASE c = Default -> 1
       [] c = OnlineStore -> 7
       [] c = "Retail Store" -> 5
       [] c = "Reseller Partners" -> 8]

DefaultRegionPriorities(rs) == [r \in Range(rs) |-> 1]

SetDefaultPriorities ==
  /\ pc = "priorities"
  /\ product_priorities' =
       IF IsNone(arg_priorities.product) THEN DefaultProductPriorities(products)
       ELSE TheDict(arg_priorities.product)
  /\ channel_priorities' =
       IF IsNone(arg_priorities.channel) THEN DefaultChannelPriorities
       ELSE TheDict(arg_priorities.channel)
  /\ region_priorities' =
       IF IsNone(arg_priorities.region) THEN DefaultRegionPriorities(regions)
       ELSE TheDict(arg_priorities.region)
  /\ pc' = "convert"
  /\ UNCHANGED <<inputs, env, summary, page, products, channels, regions, weeks, total_supply,
                 cumulative_build, demand, warnings, priority, prob, status, x,
                 errors, results>>

(***************************************************************************)
(* 4. Convert the tables to the dicts of the model.                        *)
(***************************************************************************)
TotalSupplyOf(d) ==
  DictOfRows(Column(d.total_supply, "week"), Column(d.total_supply, "total_supply"))

CumulativeBuildOf(d) ==
  DictOfRows([i \in DOMAIN d.actual_build |->
                <<d.actual_build[i].product, d.actual_build[i].week>>],
             Column(d.actual_build, "actual_build"))

\* what one row adds to the demand of period week_col (0 when it is skipped)
RowDemand(row, week_col) ==
  IF week_col \in DOMAIN row.vals /\ NotNa(row.vals[week_col])
     /\ ~FloatRaises(row.vals[week_col])
  THEN Float(row.vals[week_col]) ELSE 0

\* the row's value of period week_col makes float() raise ValueError
RowWarns(row, week_col) ==
  /\ week_col \in DOMAIN row.vals
  /\ NotNa(row.vals[week_col])
  /\ FloatRaises(row.vals[week_col])

RowKey(row, week_col) == <<row.product, row.channel, row.region, week_col>>

\* A faulty variant: the demand dict outlives the call, and a later call adds
\* its rows to what the dict already holds.
DemandOfAccumulating(d, ps, cs, rs, ws) ==
  LET rows == d.customer_demand.rows
      keys == Range(NestedLoop(ps, cs, rs, ws))
              \cup {RowKey(rows[i], w) : i \in DOMAIN rows, w \in Range(ws)}
  IN [k \in keys |->
        (IF k \in DOMAIN demand THEN demand[k] ELSE 0)
        + SumFn([i \in {j \in DOMAIN rows : RowKey(rows[j], k[4]) = k} |->
                   RowDemand(rows[i], k[4])])]

\* A faulty variant: a row overwrites what earlier rows gave to its cell.
DemandOfLastRow(d, ps, cs, rs, ws) ==
  LET rows == d.customer_demand.rows
      keys == Range(NestedLoop(ps, cs, rs, ws))
              \cup {RowKey(rows[i], w) : i \in DOMAIN rows, w \in Range(ws)}
  IN [k \in keys |->
        LET named == {j \in DOMAIN rows : RowKey(rows[j], k[4]) = k}
        IN IF named = {} THEN 0 ELSE RowDemand(rows[Max(named)], k[4])]

DemandOf(d, ps, cs, rs, ws) ==
  LET rows == d.customer_demand.rows
      keys == Range(NestedLoop(ps, cs, rs, ws))
              \cup {RowKey(rows[i], w) : i \in DOMAIN rows, w \in Range(ws)}
  IN [k \in keys |->
        SumFn([i \in {j \in DOMAIN rows : RowKey(rows[j], k[4]) = k} |->
                 RowDemand(rows[i], k[4])])]

\* A faulty variant: a value that float() refuses is skipped in silence.
WarningsOfNone(d, ws) == 0

WarningsOf(d, ws) ==
  LET rows == d.customer_demand.rows
  IN Cardinality({<<i, w>> \in (DOMAIN rows) \X Range(ws) : RowWarns(rows[i], w)})

ConvertData ==
  /\ pc = "convert"
  /\ total_supply' = TotalSupplyOf(data)
  /\ cumulative_build' = CumulativeBuildOf(data)
  /\ demand' = DemandOf(data, products, channels, regions, weeks)
  /\ warnings' = warnings + WarningsOf(data, weeks)
  /\ pc' = "build"
  /\ UNCHANGED <<inputs, env, summary, page, products, channels, regions, weeks, product_priorities,
                 channel_priorities, region_priorities, priority, prob, status,
                 x, errors, results>>

(***************************************************************************)
(* 5-9. The linear program.  An objective term stands for                  *)
(* num * x[var] / den; a constraint for  sum of x[v], v in vars,  sense    *)
(* num / den  (in units).                                                  *)
(***************************************************************************)
Triples(ps, cs, rs) == {<<p, c, r>> : p \in Range(ps), c \in Range(cs), r \in Range(rs)}

\* A faulty variant: the product priority is read as a rank, 1 the most
\* important of the ranks 1..10.
PriorityOfInverted(ps, cs, rs, pp, cp, rp) ==
  [t \in Triples(ps, cs, rs) |->
     (11 - Get(pp, t[1], 5)) * Get(cp, t[2], 1) * Get(rp, t[3], 1)]

\* A faulty variant: the three weights are added.
PriorityOfSum(ps, cs, rs, pp, cp, rp) ==
  [t \in Triples(ps, cs, rs) |->
     Get(pp, t[1], 5) + Get(cp, t[2], 1) + Get(rp, t[3], 1)]

\* A faulty variant: a channel or region that its map does not list counts 0.
PriorityOfMissingZero(ps, cs, rs, pp, cp, rp) ==
  [t \in Triples(ps, cs, rs) |->
     Get(pp, t[1], 5) * Get(cp, t[2], 0) * Get(rp, t[3], 0)]

\* 7. composite priority
PriorityOf(ps, cs, rs, pp, cp, rp) ==
  [t \in Triples(ps, cs, rs) |->
     Get(pp, t[1], 5) * Get(cp, t[2], 1) * Get(rp, t[3], 1)]

\* A faulty variant: the objective counts allocated volume weighted by
\* priority, without dividing by the demand of the cell.
ObjectiveTermRawVolume(cell, prio, dem) ==
  [var |-> cell, num |-> prio[<<cell[1], cell[2], cell[3]>>], den |-> 1]

\* A faulty variant: the objective is the plain sum of satisfaction ratios;
\* the priority weight is left out.
ObjectiveTermUnweighted(cell, prio, dem) ==
  [var |-> cell, num |-> 1, den |-> dem[cell]]

\* 8. one objective term of a cell with positive demand
ObjectiveTerm(cell, prio, dem) ==
  [var |-> cell, num |-> prio[<<cell[1], cell[2], cell[3]>>], den |-> dem[cell]]

ObjectiveTerms(cells, prio, dem) ==
  LET positive == SelectSeq(cells, LAMBDA k : k \in DOMAIN dem /\ dem[k] > 0)
  IN [i \in DOMAIN positive |-> ObjectiveTerm(positive[i], prio, dem)]

\* A faulty variant: supply is pooled, one cap over all periods together.
SupplyConstraintsPooled(cells, ws, supply) ==
  LET supplied == SelectSeq(ws, LAMBDA w : w \in DOMAIN supply)
  IN IF supplied = <<>> THEN <<>>
     ELSE << [vars |-> {k \in Range(cells) : k[4] \in Range(supplied)},
              sense |-> "<=",
              num |-> SumFn([i \in DOMAIN supplied |-> supply[supplied[i]]]),
              den |-> 1] >>

\* constraint 1: the allocation of a period is at most its supply
SupplyConstraints(cells, ws, supply) ==
  LET supplied == SelectSeq(ws, LAMBDA w : w \in DOMAIN supply)
  IN [i \in DOMAIN supplied |->
        [vars |-> {k \in Range(cells) : k[4] = supplied[i]}, sense |-> "<=",
         num |-> supply[supplied[i]], den |-> 1]]

\* A faulty variant: the cap of a cell is twice its demand.
DemandConstraintsDoubled(cells, dem) ==
  LET known == SelectSeq(cells, LAMBDA k : k \in DOMAIN dem)
  IN [i \in DOMAIN known |->
        [vars |-> {known[i]}, sense |-> "<=", num |-> 2 * dem[known[i]], den |-> 1]]

\* A faulty variant: the allocation of a cell is capped by what was built of
\* its product in its period as well, where the build table has such a row.
DemandConstraintsBuildCapped(cells, dem) ==
  LET known == SelectSeq(cells, LAMBDA k : k \in DOMAIN dem)
  IN [i \in DOMAIN known |->
        [vars |-> {known[i]}, sense |-> "<=",
         num |-> IF <<known[i][1], known[i][4]>> \in DOMAIN cumulative_build
                 THEN Min({dem[known[i]],
                           cumulative_build[<<known[i][1], known[i][4]>>]})
                 ELSE dem[known[i]],
         den |-> 1]]

\* constraint 2: the allocation of a cell is at most its demand
DemandConstraints(cells, dem) ==
  LET known == SelectSeq(cells, LAMBDA k : k \in DOMAIN dem)
  IN [i \in DOMAIN known |->
        [vars |-> {known[i]}, sense |-> "<=", num |-> dem[known[i]], den |-> 1]]

\* all([p, c, r, w]): no field is None or the empty string
AllGiven(o) == o.product # "" /\ o.channel # "" /\ o.region # "" /\ o.week # ""

OverrideCell(o) == <<o.product, o.channel, o.region, o.week>>

\* A faulty variant: the test of the demand is inverted, so that no cell
\* with positive demand is ever overridden.
OverrideAppliesToZeroDemand(o, dem) ==
  AllGiven(o) /\ OverrideCell(o) \in DOMAIN dem /\ dem[OverrideCell(o)] <= 0

OverrideApplies(o, dem) ==
  AllGiven(o) /\ OverrideCell(o) \in DOMAIN dem /\ dem[OverrideCell(o)] > 0

\* A faulty variant: the overrides are read and dropped.
OverrideConstraintsDropped(constraints, dem) == <<>>

\* A faulty variant: the floor of an overridden cell is the rate taken as a
\* number of units (1.0 is one unit), whatever the demand of the cell.
OverrideConstraintsAbsolute(constraints, dem) ==
  LET applied == SelectSeq(constraints,
                           LAMBDA o : AllGiven(o) /\ OverrideCell(o) \in DOMAIN dem)
  IN [i \in DOMAIN applied |->
        [vars |-> {OverrideCell(applied[i])}, sense |-> ">=",
         num |-> applied[i].satisfaction_rate, den |-> 100]]

\* constraint 3: the allocation of an overridden cell is at least rate * demand
OverrideConstraints(constraints, dem) ==
  LET applied == SelectSeq(constraints, LAMBDA o : OverrideApplies(o, dem))
  IN [i \in DOMAIN applied |->
        [vars |-> {OverrideCell(applied[i])}, sense |-> ">=",
         num |-> applied[i].satisfaction_rate * dem[OverrideCell(applied[i])],
         den |-> 100]]

\* 5-6, 8-9. the LpProblem with its variables, objective and constraints
LpOf(cells, ws, supply, dem, prio, constraints) ==
  [variables |-> cells, lowBound |-> 0,
   objective |-> ObjectiveTerms(cells, prio, dem),
   constraints |-> SupplyConstraints(cells, ws, supply)
                   \o DemandConstraints(cells, dem)
                   \o OverrideConstraints(constraints, dem)]

BuildModel ==
  /\ pc = "build"
  /\ priority' = PriorityOf(products, channels, regions, product_priorities,
                            channel_priorities, region_priorities)
  /\ prob' = LpOf(NestedLoop(products, channels, regions, weeks), weeks,
                  total_supply, demand, priority', special_constraints)
  /\ pc' = "solve"
  /\ UNCHANGED <<inputs, env, summary, page, products, channels, regions, weeks, product_priorities,
                 channel_priorities, region_priorities, total_supply,
                 cumulative_build, demand, warnings, status, x, errors, results>>

(***************************************************************************)
(* 10. The solve.  The solver returns status Infeasible when no point      *)
(* satisfies the constraints, Unbounded when the objective has no maximum, *)
(* and otherwise Optimal with one of the points that maximise the          *)
(* objective; which one, among equally good points, is the solver's        *)
(* choice.  Points are enumerated on the grid of half units.               *)
(***************************************************************************)
LpVars(lp) == Range(lp.variables)

Ceiling(num, den) == 0 - ((0 - num) \div den)

\* the tightest upper bound that the "<=" constraints put on each variable
\* (half units); a variable that no "<=" constraint mentions has none
VarCaps(lp) ==
  LET hits(v) == {i \in DOMAIN lp.constraints :
                    lp.constraints[i].sense = "<=" /\ v \in lp.constraints[i].vars}
  IN [v \in {u \in LpVars(lp) : hits(u) # {}} |->
        Min({(2 * lp.constraints[i].num) \div lp.constraints[i].den : i \in hits(v)})]

\* the largest lower bound of each variable: lowBound, and the ">="
\* constraints on the variable alone
VarFloors(lp) ==
  [v \in LpVars(lp) |->
     Max({2 * lp.lowBound} \cup
         {Ceiling(2 * lp.constraints[i].num, lp.constraints[i].den) :
            i \in {j \in DOMAIN lp.constraints :
                     lp.constraints[j].sense = ">=" /\ lp.constraints[j].vars = {v}}})]

\* the variables that can be raised without limit while the objective grows
Uncapped(lp, caps) ==
  {v \in LpVars(lp) \ DOMAIN caps :
     \E i \in DOMAIN lp.objective :
        lp.objective[i].var = v /\ lp.objective[i].num > 0}

\* the variables that have more than one value within their bounds
FreeVars(caps, floors) == {v \in DOMAIN caps : caps[v] > floors[v]}

\* the points on the grid that respect each variable's own bounds; a point
\* lists the free variables only, every other variable is at its floor
RECURSIVE Box(_, _, _)
Box(caps, floors, vs) ==
  IF vs = {} THEN {<<>>}
  ELSE LET v == CHOOSE v \in vs : TRUE
           range == floors[v]..caps[v]
           rest == Box(caps, floors, vs \ {v})
       IN {[u \in (DOMAIN f) \cup {v} |-> IF u = v THEN n ELSE f[u]] :
             f \in rest, n \in range}

ValueAt(floors, a, v) == IF v \in DOMAIN a THEN a[v] ELSE floors[v]

Holds(floors, con, a) ==
  LET lhs == SumFn([v \in con.vars |-> ValueAt(floors, a, v)])
  IN IF con.sense = "<=" THEN lhs * con.den <= 2 * con.num
     ELSE lhs * con.den >= 2 * con.num

\* the points of the box that satisfy the constraints over several variables
FeasibleIn(lp, floors, box, moving) ==
  {a \in box : \A i \in moving : Holds(floors, lp.constraints[i], a)}

\* a constraint over variables that are all fixed holds at every point of
\* the box or at none; a constraint on one free variable is its bound
FeasibleAmong(lp, caps, floors, free) ==
  IF \E i \in DOMAIN lp.constraints :
        lp.constraints[i].vars \cap free = {} /\ ~Holds(floors, lp.constraints[i], <<>>)
  THEN {}
  ELSE FeasibleIn(lp, floors, Box(caps, floors, free),
                  {i \in DOMAIN lp.constraints :
                     /\ lp.constraints[i].vars \cap free # {}
                     /\ Cardinality(lp.constraints[i].vars) > 1})

Feasible(lp, caps, floors) == FeasibleAmong(lp, caps, floors, FreeVars(caps, floors))

\* the objective's coefficient of each term, times the product of all the
\* terms' denominators
Scaled(lp, common) ==
  [i \in DOMAIN lp.objective |->
     lp.objective[i].num * (common \div lp.objective[i].den)]

Coefficients(lp) ==
  Scaled(lp, ProdFn([i \in DOMAIN lp.objective |-> lp.objective[i].den]))

ObjectiveValue(lp, coef, floors, a) ==
  SumFn([i \in DOMAIN lp.objective |->
           coef[i] * ValueAt(floors, a, lp.objective[i].var)])

ObjectiveValues(lp, coef, floors, points) ==
  [a \in points |-> ObjectiveValue(lp, coef, floors, a)]

Best(values, best) == {a \in DOMAIN values : values[a] = best}

Maximisers(values) == Best(values, Max({values[a] : a \in DOMAIN values}))

Optimal(lp, floors, feasible) ==
  Maximisers(ObjectiveValues(lp, Coefficients(lp), floors, feasible))

SolveStatus(lp, caps, feasible) ==
  IF feasible = {} THEN "Infeasible"
  ELSE IF Uncapped(lp, caps) # {} THEN "Unbounded"
  ELSE "Optimal"

\* the outcomes of the solve: the status with the values of the variables
Outcomes(lp, floors, feasible, stat) ==
  IF stat = "Optimal"
  THEN {[status |-> stat, x |-> [v \in LpVars(lp) |-> ValueAt(floors, a, v)]] :
          a \in Optimal(lp, floors, feasible)}
  ELSE {[status |-> stat, x |-> <<>>]}

SolveOutcomes(lp, caps, floors, feasible) ==
  Outcomes(lp, floors, feasible, SolveStatus(lp, caps, feasible))

SolveLp(lp, caps, floors) == SolveOutcomes(lp, caps, floors, Feasible(lp, caps, floors))

\* The solver is deterministic: asked the same problem again, it gives the
\* answer it gave before.
Solve ==
  /\ pc = "solve"
  /\ IF prob \in DOMAIN solved
     THEN /\ status' = solved[prob].status
          /\ x' = solved[prob].x
          /\ solved' = solved
     ELSE \E out \in SolveLp(prob, VarCaps(prob), VarFloors(prob)) :
             /\ status' = out.status
             /\ x' = out.x
             /\ solved' = (prob :> out) @@ solved
  /\ pc' = "results"
  /\ UNCHANGED <<inputs, calls, summary, page, products, channels, regions, weeks,
                 product_priorities, channel_priorities, region_priorities,
                 total_supply, cumulative_build, demand, warnings, priority,
                 prob, errors, results>>

(***************************************************************************)
(* 11. The result rows.  allocation is in half units; satisfaction is the  *)
(* fraction num / den.                                                     *)
(***************************************************************************)
\* A faulty variant: every cell with positive demand gets a row, allocated
\* or not.
HasRowUnfiltered(cell, dem, x_values) ==
  /\ cell \in DOMAIN dem /\ dem[cell] > 0
  /\ cell \in DOMAIN x_values

\* the cell gets a row
HasRow(cell, dem, x_values) ==
  /\ cell \in DOMAIN dem /\ dem[cell] > 0
  /\ cell \in DOMAIN x_values /\ x_values[cell] > 0

ResultRow(cell, dem, x_values, prio) ==
  [product |-> cell[1], channel |-> cell[2], region |-> cell[3], week |-> cell[4],
   demand |-> dem[cell],
   allocation |-> x_values[cell],
   satisfaction |-> [num |-> x_values[cell], den |-> 2 * dem[cell]],
   priority |-> Get(prio, <<cell[1], cell[2], cell[3]>>, 1)]

ResultRows(cells, dem, x_values, prio) ==
  LET kept == SelectSeq(cells, LAMBDA k : HasRow(k, dem, x_values))
  IN [i \in DOMAIN kept |-> ResultRow(kept[i], dem, x_values, prio)]

\* the table that the call returns
ReturnedTable(stat, cells, dem, x_values, prio) ==
  IF stat = "Optimal" THEN ResultRows(cells, dem, x_values, prio) ELSE <<>>

ProcessResults ==
  /\ pc = "results"
  /\ results' = ReturnedTable(status, NestedLoop(products, channels, regions, weeks),
                              demand, x, priority)
  /\ errors' = IF status = "Optimal" THEN errors ELSE errors + 1
  /\ pc' = "done"
  /\ UNCHANGED <<inputs, env, summary, page, products, channels, regions, weeks,
                 product_priorities, channel_priorities, region_priorities,
                 total_supply, cumulative_build, demand, warnings, priority,
                 prob, status, x>>

(***************************************************************************)
(* Calls on tables whose period column holds, besides ints, what the       *)
(* loader leaves of a field that is not all digits: a string that float()  *)
(* refuses, a string that float() accepts, or a missing value.             *)
(***************************************************************************)
RawValues ==
  {IntValue(n) : n \in 0..MaxDemandWarn} \cup {StrValue(FALSE, 0), StrValue(TRUE, 1), NaNValue}

WarnData ==
  [total_supply : SupplyTables(<<Wk1>>, MaxSupplyOne),
   actual_build : {<<>>},
   demand_forecast : {ForecastTable},
   customer_demand :
     [columns : {<<"product", "channel", "region", Wk1>>},
      rows : SeqsUpTo([product : DemandProducts, channel : DemandChannels,
                       region : DemandRegions, vals : [{Wk1} -> RawValues]],
                      MaxRows)]]

InitWarn ==
  /\ data \in WarnData
  /\ arg_priorities = [product |-> None, channel |-> None, region |-> None]
  /\ special_constraints \in ConstraintLists
  /\ FirstCall

(***************************************************************************)
(* get_summary_stats, applied to the table that the call returned.  (The   *)
(* page calls it for a table with rows only; the function takes any.)      *)
(* A group key is the tuple of the values of the grouping columns.  The    *)
(* quotient of two sums is kept as the fraction num / den, allocation      *)
(* being in half units; NaN and inf are what the float division of pandas  *)
(* gives for a divisor 0.                                                  *)
(***************************************************************************)
KeyBy(row, by) == [j \in DOMAIN by |-> row[by[j]]]

\* the rows of one group
GroupRows(result_df, by, key) ==
  {i \in DOMAIN result_df : KeyBy(result_df[i], by) = key}

\* A faulty variant: the aggregate of a group is the largest value.
SumOfLargest(result_df, group, column) == Max({result_df[i][column] : i \in group})

\* .agg({"demand": "sum", "allocation": "sum"}) of one group
SumOf(result_df, group, column) == SumFn([i \in group |-> result_df[i][column]])

\* A faulty variant: the quotient is taken the wrong way round.
QuotientInverted(allocation_sum, demand_sum) ==
  [kind |-> "number", num |-> 4 * demand_sum, den |-> 2 * allocation_sum]

\* allocation / demand of a grouped frame
Quotient(allocation_sum, demand_sum) ==
  IF demand_sum # 0
  THEN [kind |-> "number", num |-> allocation_sum, den |-> 2 * demand_sum]
  ELSE IF allocation_sum = 0 THEN [kind |-> "nan", num |-> 0, den |-> 0]
  ELSE [kind |-> "inf", num |-> allocation_sum, den |-> 0]

GroupSummary(result_df, group) ==
  [demand |-> SumOf(result_df, group, "demand"),
   allocation |-> SumOf(result_df, group, "allocation"),
   satisfaction |-> Quotient(SumOf(result_df, group, "allocation"),
                             SumOf(result_df, group, "demand"))]

\* A faulty variant: a group holds the first of its rows only.
GroupedFirstRow(result_df, by) ==
  [key \in {KeyBy(result_df[i], by) : i \in DOMAIN result_df} |->
     GroupSummary(result_df, {Min(GroupRows(result_df, by, key))})]

\* result_df.groupby(by).agg(...) with the satisfaction column
Grouped(result_df, by) ==
  [key \in {KeyBy(result_df[i], by) : i \in DOMAIN result_df} |->
     GroupSummary(result_df, GroupRows(result_df, by, key))]

\* the grouping columns of the four views
ViewColumns ==
  [view \in {"product", "product_week", "channel_region", "week"} |->
     CASE view = "product" -> <<"product">>
       [] view = "product_week" -> <<"product", "week">>
       [] view = "channel_region" -> <<"product", "channel", "region">>
       [] view = "week" -> <<"week">>]

\* the dict that get_summary_stats returns: empty for an empty table
SummaryOf(result_df) ==
  IF result_df # <<>>
  THEN [view \in DOMAIN ViewColumns |-> Grouped(result_df, ViewColumns[view])]
  ELSE <<>>

GetSummaryStats ==
  /\ pc = "done"
  /\ summary' = SummaryOf(results)
  /\ pc' = "summarised"
  /\ UNCHANGED <<inputs, env, locals, page>>

Next ==
  \/ ExtractIndexSets
  \/ SetDefaultPriorities
  \/ ConvertData
  \/ BuildModel
  \/ Solve
  \/ ProcessResults
  \/ GetSummaryStats

Spec == Init /\ [][Next]_vars

SpecWarn == InitWarn /\ [][Next]_vars

\* calls on tables of two periods, for what one period does to the other
InitPeriods ==
  /\ data \in {d \in TwoPeriodData : d.actual_build = <<>>}
  /\ arg_priorities \in PriorityArgs
  /\ special_constraints \in ConstraintLists
  /\ FirstCall

SpecPeriods == InitPeriods /\ [][Next]_vars

(***************************************************************************)
(* Repeated calls.  When a call has returned, the caller keeps its         *)
(* arguments and the returned table and calls again, with the same tables  *)
(* and overrides and with product priorities of its choice.  The new call  *)
(* runs in the same process: what the last call left in the variables and  *)
(* what the solver answered so far is still there.                         *)
(***************************************************************************)
\* tables for repeated calls: one period with a supply row, and one demand
\* row of positive demand for each product
RerunData ==
  {d \in OnePeriodData :
     /\ d.actual_build = <<>>
     /\ d.total_supply # <<>>
     /\ Column(d.customer_demand.rows, "product") = <<PlusProduct, MiniProduct>>
     /\ \A i \in DOMAIN d.customer_demand.rows :
           Float(d.customer_demand.rows[i].vals[Wk1]) > 0}

InitRerun ==
  /\ data \in RerunData
  /\ arg_priorities \in RerunPriorityArgs
  /\ special_constraints \in ConstraintLists
  /\ FirstCall

CallAgain ==
  /\ pc = "done"
  /\ Len(calls.finished) + 1 < MaxCalls
  /\ arg_priorities' \in RerunPriorityArgs
  /\ UNCHANGED <<data, special_constraints>>
  /\ calls' = [args |-> inputs',
               finished |-> Append(calls.finished,
                                   [args |-> calls.args, results |-> results])]
  /\ pc' = "extract"
  /\ UNCHANGED <<locals, solved, summary, page>>

NextRerun ==
  \/ Next
  \/ CallAgain

SpecRerun == InitRerun /\ [][NextRerun]_vars

(***************************************************************************)
(* load_case2_data.  The file is a list of lines and a line the list of    *)
(* its comma-separated fields; the file exists and has no blank or comment *)
(* line.  `'a,b' in line` is read as: the fields a, b follow each other in *)
(* the line; `'a' in line` as: a field of the line contains a.             *)
(***************************************************************************)
Adjacent(line, pattern) ==
  \E i \in 1..(Len(line) - Len(pattern) + 1) :
    SubSeq(line, i, i + Len(pattern) - 1) = pattern

HasProductWord(line) == "product" \in Range(line)
HasJanWk(line) == Range(line) \cap {Wk1, Wk2} # {}
HasWeekWord(line) == "week" \in Range(line)
HasActualBuildWord(line) == "actual_build" \in Range(line)

IsTable1Header(line) == Adjacent(line, <<"week", "total_supply">>)
IsTable2Header(line) == Adjacent(line, <<"week", "product", "actual_build">>)
IsTable3Header(line) ==
  /\ HasProductWord(line) /\ HasJanWk(line)
  /\ ~HasWeekWord(line) /\ ~HasActualBuildWord(line)
IsTable3End(line) == Adjacent(line, <<"channel", "region">>) /\ HasJanWk(line)
IsTable4Header(line) ==
  Adjacent(line, <<"product", "channel", "region">>) /\ HasJanWk(line)

\* the number strings of the explored files, and int() or float() of them
IntOf == ("0" :> 0) @@ ("1" :> 1) @@ ("2" :> 2) @@ ("-1" :> -1)
\* str.isdigit(): a sign is no digit
IsDigit(field) == field \in {"0", "1", "2"}

\* int(field), or the field itself when int() raises ValueError
IntOrString(field) == IF field \in DOMAIN IntOf THEN IntOf[field] ELSE field

\* Table 1: the lines after the header line, up to the header of table 2
RECURSIVE Table1Rows(_, _)
Table1Rows(lines, table1_started) ==
  IF lines = <<>> THEN <<>>
  ELSE IF IsTable1Header(Head(lines)) THEN Table1Rows(Tail(lines), TRUE)
  ELSE IF ~table1_started THEN Table1Rows(Tail(lines), FALSE)
  ELSE IF IsTable2Header(Head(lines)) THEN <<>>
  ELSE (IF Len(Head(lines)) >= 2
        THEN <<[week |-> Head(lines)[1],
                total_supply |-> IntOrString(Head(lines)[2])]>>
        ELSE <<>>)
       \o Table1Rows(Tail(lines), TRUE)

\* Table 2: the lines after the header line, up to the header of table 3
RECURSIVE Table2Rows(_, _)
Table2Rows(lines, table2_started) ==
  IF lines = <<>> THEN <<>>
  ELSE IF IsTable2Header(Head(lines)) THEN Table2Rows(Tail(lines), TRUE)
  ELSE IF ~table2_started THEN Table2Rows(Tail(lines), FALSE)
  ELSE IF IsTable3Header(Head(lines)) THEN <<>>
  ELSE (IF Len(Head(lines)) >= 3
        THEN <<[week |-> Head(lines)[1], product |-> Head(lines)[2],
                actual_build |-> IntOrString(Head(lines)[3])]>>
        ELSE <<>>)
       \o Table2Rows(Tail(lines), TRUE)


\* a field kept as the string it is; float() parses it when it is a number
\* string, signed or not
StringOf(field) ==
  IF field \in DOMAIN IntOf THEN StrValue(TRUE, IntOf[field]) ELSE StrValue(FALSE, 0)

\* the int of the field where the loader converts it, else the string
IntOrStringValue(field, is_int) ==
  IF is_int THEN IntValue(IntOf[field]) ELSE StringOf(field)

\* the cells of one parsed line: the name of the column, the field and the
\* value kept of it
RowData(header_cols, parts, values) ==
  [i \in 1..Len(header_cols) |->
     [col |-> header_cols[i], text |-> parts[i], value |-> values[i]]]

\* Table 3: every line that looks like its header (the header of table 4
\* does) starts the table anew; only a line that does not is tested for the
\* end of the table
RECURSIVE Table3Rows(_, _, _)
Table3Rows(lines, table3_started, header_cols) ==
  IF lines = <<>> THEN <<>>
  ELSE IF IsTable3Header(Head(lines))
       THEN Table3Rows(Tail(lines), TRUE, Head(lines))
  ELSE IF ~table3_started THEN Table3Rows(Tail(lines), FALSE, header_cols)
  ELSE IF IsTable3End(Head(lines)) THEN <<>>
  ELSE (IF Len(Head(lines)) >= Len(header_cols)
        THEN <<RowData(header_cols, Head(lines),
                       [i \in 1..Len(header_cols) |->
                          IntOrStringValue(Head(lines)[i],
                                           i > 1 /\ Head(lines)[i] \in DOMAIN IntOf)])>>
        ELSE <<>>)
       \o Table3Rows(Tail(lines), TRUE, header_cols)

\* Table 4: the lines after its header, to the end of the file
RECURSIVE Table4Rows(_, _, _)
Table4Rows(lines, table4_started, header_cols_t4) ==
  IF lines = <<>> THEN <<>>
  ELSE IF IsTable4Header(Head(lines))
       THEN Table4Rows(Tail(lines), TRUE, Head(lines))
  ELSE IF ~table4_started THEN Table4Rows(Tail(lines), FALSE, header_cols_t4)
  ELSE (IF Len(Head(lines)) >= Len(header_cols_t4)
        THEN <<RowData(header_cols_t4, Head(lines),
                       [i \in 1..Len(header_cols_t4) |->
                          IntOrStringValue(Head(lines)[i],
                                           i >= 4 /\ IsDigit(Head(lines)[i]))])>>
        ELSE <<>>)
       \o Table4Rows(Tail(lines), TRUE, header_cols_t4)

\* pd.DataFrame(list of dicts): the columns in the order in which the dicts
\* first name them
RECURSIVE ColumnsOfRows(_)
ColumnsOfRows(row_dicts) ==
  IF row_dicts = <<>> THEN <<>>
  ELSE Unique([i \in DOMAIN Head(row_dicts) |-> Head(row_dicts)[i].col]
              \o ColumnsOfRows(Tail(row_dicts)))

\* the cell of a column in a parsed line (NaN where the line has no such cell)
CellOfRow(row_dict, col) ==
  LET named == SelectSeq(row_dict, LAMBDA cell : cell.col = col)
  IN IF named = <<>> THEN [col |-> col, text |-> "nan", value |-> NaNValue]
     ELSE Head(named)


\* pd.DataFrame of the lines of table 3
ForecastFrame(row_dicts) ==
  [columns |-> ColumnsOfRows(row_dicts),
   rows |-> [i \in DOMAIN row_dicts |->
               [product |-> CellOfRow(row_dicts[i], "product").text,
                vals |-> [col \in Range(ColumnsOfRows(row_dicts)) \ {"product"} |->
                            CellOfRow(row_dicts[i], col).value]]]]

\* pd.DataFrame of the lines of table 4
DemandFrame(row_dicts) ==
  [columns |-> ColumnsOfRows(row_dicts),
   rows |-> [i \in DOMAIN row_dicts |->
               [product |-> CellOfRow(row_dicts[i], "product").text,
                channel |-> CellOfRow(row_dicts[i], "channel").text,
                region |-> CellOfRow(row_dicts[i], "region").text,
                vals |-> [col \in Range(ColumnsOfRows(row_dicts))
                                    \ {"product", "channel", "region"} |->
                            CellOfRow(row_dicts[i], col).value]]]]

\* the four tables that the scans find in the file
ParsedTables(lines) ==
  [total_supply_data |-> Table1Rows(lines, FALSE),
   actual_build_data |-> Table2Rows(lines, FALSE),
   demand_forecast_data |-> Table3Rows(lines, FALSE, <<>>),
   customer_demand_data |-> Table4Rows(lines, FALSE, <<>>)]

DataDict(parsed) ==
  [total_supply |-> parsed.total_supply_data,
   actual_build |-> parsed.actual_build_data,
   demand_forecast |-> ForecastFrame(parsed.demand_forecast_data),
   customer_demand |-> DemandFrame(parsed.customer_demand_data)]

\* validate_case2_data: the identifying columns of the four frames.  The
\* frames of tables 1 and 2 are made of dicts with fixed keys; `product` is
\* not asked of the detailed-demand frame.
ValidateCase2Data(data_dict) ==
  /\ \A row \in Range(data_dict.total_supply) :
       {"week", "total_supply"} \subseteq DOMAIN row
  /\ \A row \in Range(data_dict.actual_build) :
       {"week", "product", "actual_build"} \subseteq DOMAIN row
  /\ "product" \in Range(data_dict.demand_forecast.columns)
  /\ {"channel", "region"} \subseteq Range(data_dict.customer_demand.columns)

\* _generate_mock_case2_data, one period, one product, one channel and one
\* region of it, the quantities in the units of the model: the
\* detailed-demand rows have a channel, a region and the periods, no product
MockCase2Data ==
  [total_supply |-> <<[week |-> Wk1, total_supply |-> 1]>>,
   actual_build |-> <<[week |-> Wk1, product |-> PlusProduct, actual_build |-> 1]>>,
   demand_forecast |->
     [columns |-> <<"product", Wk1>>,
      rows |-> <<[product |-> PlusProduct, vals |-> [w \in {Wk1} |-> IntValue(1)]]>>],
   customer_demand |->
     [columns |-> <<"channel", "region", Wk1>>,
      rows |-> <<[channel |-> OnlineStore, region |-> AMR,
                  vals |-> [w \in {Wk1} |-> IntValue(1)]]>>]]

\* what load_case2_data returns for the file, and where it comes from
FileIsUsed(parsed) ==
  /\ parsed.total_supply_data # <<>> /\ parsed.actual_build_data # <<>>
  /\ parsed.demand_forecast_data # <<>> /\ parsed.customer_demand_data # <<>>
  /\ ValidateCase2Data(DataDict(parsed))

LoadedData(parsed) ==
  IF FileIsUsed(parsed) THEN DataDict(parsed) ELSE MockCase2Data


\* the line without its i-th field (the whole line for i = 0)
Drop(line, i) ==
  IF i = 0 THEN line ELSE SubSeq(line, 1, i - 1) \o SubSeq(line, i + 1, Len(line))

\* the files explored: the four tables of one period, a header and one line
\* each; a table may lack one of its identifying columns, header and line
Digits == {"0", "1", "2"}

Files ==
  {<<Drop(<<"week", "total_supply">>, l1), Drop(<<Wk1, supply>>, l1),
     Drop(<<"week", "product", "actual_build">>, l2),
     Drop(<<Wk1, BuildProduct, "1">>, l2),
     Drop(<<"product", Wk1>>, l3), Drop(<<PlusProduct, "1">>, l3),
     Drop(<<"product", "channel", "region", Wk1>>, l4),
     Drop(<<PlusProduct, OnlineStore, AMR, wanted>>, l4)>> :
     l1 \in 0..2, l2 \in 0..3, l3 \in 0..1, l4 \in 0..3,
     supply \in Digits, wanted \in Digits \cup {"-1"}}

\* the tables before the file is read
NoData ==
  [total_supply |-> <<>>, actual_build |-> <<>>,
   demand_forecast |-> [columns |-> <<>>, rows |-> <<>>],
   customer_demand |-> [columns |-> <<>>, rows |-> <<>>]]

\* the page reads the file and, the button pressed, calls
\* optimize_supply_allocation with what load_case2_data returned
LoadCase2Data ==
  /\ pc = "load"
  /\ data' = LoadedData(ParsedTables(file))
  /\ source' = IF FileIsUsed(ParsedTables(file)) THEN "file" ELSE "mock"
  /\ calls' = [args |-> <<data', arg_priorities, special_constraints>>,
               finished |-> <<>>]
  /\ pc' = "extract"
  /\ UNCHANGED <<arg_priorities, special_constraints, locals, solved,
                 summary, file, raised>>

InitLoad ==
  /\ file \in Files
  /\ data = NoData
  /\ arg_priorities = [product |-> None, channel |-> None, region |-> None]
  /\ special_constraints = <<>>
  /\ pc = "load"
  /\ Unset
  /\ solved = <<>>
  /\ calls = [args |-> inputs, finished |-> <<>>]
  /\ summary = <<>>
  /\ source = "pending" /\ raised = <<>>

NextLoad ==
  \/ LoadCase2Data
  \/ ExtractRaises
  \/ Next

SpecLoad == InitLoad /\ [][NextLoad]_vars

(***************************************************************************)
(* A second call that differs from the first in one argument.  The caller  *)
(* keeps the returned table and calls again in the same process, either    *)
(* without the override constraints, or with other quantities in the       *)
(* actual_build table, or with other values in the demand_forecast table.  *)
(* The supply table of these calls may hold two rows for the period.       *)
(***************************************************************************)
\* one period; a supply table of at most two rows, the same period in both
VaryData ==
  [total_supply : SeqsUpTo([week : {Wk1}, total_supply : 0..MaxSupplyVary], 2),
   actual_build : {<<>>} \cup {<<r>> : r \in [week : {Wk1},
                                              product : {PlusProduct, BuildProduct},
                                              actual_build : 0..MaxBuild]},
   demand_forecast : {ForecastTable},
   customer_demand : DemandTables(<<Wk1>>, MaxDemandVary)]

InitVary ==
  /\ data \in VaryData
  /\ arg_priorities = [product |-> None, channel |-> None, region |-> None]
  /\ special_constraints \in ConstraintLists
  /\ FirstCall

CallVaried ==
  /\ pc = "done"
  /\ calls.finished = <<>>
  /\ \/ /\ special_constraints # <<>>
        /\ special_constraints' = <<>>
        /\ UNCHANGED data
     \/ /\ \E i \in DOMAIN data.actual_build : \E q \in 0..MaxBuild :
             /\ q # data.actual_build[i].actual_build
             /\ data' = [data EXCEPT !.actual_build[i].actual_build = q]
        /\ UNCHANGED special_constraints
     \/ /\ \E i \in DOMAIN data.demand_forecast.rows : \E w \in {Wk1, Wk2} :
             data' = [data EXCEPT !.demand_forecast.rows[i].vals[w] = @ + 1]
        /\ UNCHANGED special_constraints
  /\ UNCHANGED arg_priorities
  /\ calls' = [args |-> inputs',
               finished |-> <<[args |-> calls.args, results |-> results,
                               status |-> status]>>]
  /\ pc' = "extract"
  /\ UNCHANGED <<locals, solved, summary, page>>

NextVary ==
  \/ Next
  \/ CallVaried

SpecVary == InitVary /\ [][NextVary]_vars

(***************************************************************************)
(* What the claims speak of, read from the caller's tables and the         *)
(* returned table.                                                         *)
(***************************************************************************)
Done == pc = "done"

RowCell(row) == <<row.product, row.channel, row.region, row.week>>

\* the requested units of a cell: the sum of the numbers that the rows of
\* the detailed-demand table hold for it (0 when no row names it)
CellDemand(cell) ==
  LET rows == data.customer_demand.rows
      named == {i \in DOMAIN rows :
                  /\ <<rows[i].product, rows[i].channel, rows[i].region>>
                       = <<cell[1], cell[2], cell[3]>>
                  /\ cell[4] \in DOMAIN rows[i].vals
                  /\ rows[i].vals[cell[4]].parses}
  IN SumFn([i \in named |-> rows[i].vals[cell[4]].num])

\* every (product, channel, region, period) of the index sets
IndexCells == Range(NestedLoop(products, channels, regions, weeks))

\* the rows of the returned table that carry the cell / the period
RowsOfCell(cell) == {i \in DOMAIN results : RowCell(results[i]) = cell}
RowsOfWeek(w) == {i \in DOMAIN results : results[i].week = w}

\* the allocation that the returned table gives to a set of rows (half units)
Allocated(rows) == SumFn([i \in rows |-> results[i].allocation])

\* the periods that have a row in the supply table
SuppliedWeeks == {data.total_supply[i].week : i \in DOMAIN data.total_supply}

\* the cells of the index sets with positive demand
PositiveCells == {k \in IndexCells : CellDemand(k) > 0}

\* C1: every returned row allocates at most the demand of its cell.
C1_DemandCap ==
  Done => \A i \in DOMAIN results :
            results[i].allocation <= 2 * CellDemand(RowCell(results[i]))

\* a cell is satisfied in full although its period's supply exceeds its demand
C1_Witness ==
  /\ Done
  /\ \E i \in DOMAIN results :
        /\ results[i].allocation = 2 * CellDemand(RowCell(results[i]))
        /\ results[i].week \in DOMAIN total_supply
        /\ total_supply[results[i].week] > CellDemand(RowCell(results[i]))

\* C2: for every period with a row in the supply table, the rows of that
\* period allocate together at most the period's total_supply.
C2_SupplyCap ==
  Done => \A w \in SuppliedWeeks :
            Allocated(RowsOfWeek(w)) <= 2 * total_supply[w]

\* a supplied period whose demand exceeds its supply gets all of the supply,
\* while rows of another period are returned as well
C2_Witness ==
  /\ Done
  /\ \E w \in SuppliedWeeks :
        /\ total_supply[w] > 0
        /\ Allocated(RowsOfWeek(w)) = 2 * total_supply[w]
        /\ SumFn([k \in {c \in PositiveCells : c[4] = w} |-> CellDemand(k)])
             > total_supply[w]
        /\ \E i \in DOMAIN results : results[i].week # w

\* C3 (as claimed): a period that is a demand column without a row in the
\* supply table gets no allocation, so no returned row carries it.
C3_ZeroCapUnsupplied ==
  Done => \A i \in DOMAIN results : results[i].week \in SuppliedWeeks

\* the override constraints that name a cell with positive demand
FloorOverrides ==
  {j \in DOMAIN special_constraints :
     CellDemand(OverrideCell(special_constraints[j])) > 0}

\* C4 (as claimed): when the returned table is not empty, it holds a row for
\* every overridden cell of positive demand, with allocation >= rate * demand.
C4_OverrideFloorRow ==
  (Done /\ results # <<>>) =>
    \A j \in FloorOverrides :
      \E i \in RowsOfCell(OverrideCell(special_constraints[j])) :
         100 * results[i].allocation
           >= 2 * special_constraints[j].satisfaction_rate
                * CellDemand(OverrideCell(special_constraints[j]))

\* C4 (amended): when the returned table is not empty, the allocation of
\* every overridden cell of positive demand (0 when the cell has no row) is
\* >= rate * demand, and the cell has a row when the rate is above 0.
C4_OverrideFloor ==
  (Done /\ results # <<>>) =>
    \A j \in FloorOverrides :
      /\ 100 * Allocated(RowsOfCell(OverrideCell(special_constraints[j])))
           >= 2 * special_constraints[j].satisfaction_rate
                * CellDemand(OverrideCell(special_constraints[j]))
      /\ special_constraints[j].satisfaction_rate > 0
           => RowsOfCell(OverrideCell(special_constraints[j])) # {}

\* an overridden cell is held at exactly its floor of half its demand, the
\* rest of the period's supply going to another cell
C4_Witness ==
  /\ Done
  /\ \E j \in FloorOverrides :
        /\ special_constraints[j].satisfaction_rate = 50
        /\ Allocated(RowsOfCell(OverrideCell(special_constraints[j])))
             = CellDemand(OverrideCell(special_constraints[j]))
        /\ \E i \in DOMAIN results :
              /\ RowCell(results[i]) # OverrideCell(special_constraints[j])
              /\ results[i].week = special_constraints[j].week

\* the largest rate that the overrides give for a cell, in percent
LargestRate(cell) ==
  Max({special_constraints[j].satisfaction_rate :
         j \in {i \in FloorOverrides : OverrideCell(special_constraints[i]) = cell}})

\* 100 times the sum of the override floors of period w
FloorTotal(w) ==
  SumFn([k \in {OverrideCell(special_constraints[j]) : j \in FloorOverrides}
                 \cap {c \in PositiveCells : c[4] = w} |->
           LargestRate(k) * CellDemand(k)])

FloorsExceedSupply ==
  \E w \in SuppliedWeeks : FloorTotal(w) > 100 * total_supply[w]

\* C5: when the override floors of a supplied period sum to more than the
\* period's supply, the call returns a table with zero rows.
C5_InfeasibleEmpty ==
  (Done /\ FloorsExceedSupply) => (results = <<>> /\ status # "Optimal")

\* the floors exceed a supply that is not 0, so a best-effort allocation of
\* the supply would have rows
C5_Witness ==
  /\ Done
  /\ \E w \in SuppliedWeeks :
        FloorTotal(w) > 100 * total_supply[w] /\ total_supply[w] > 0
  /\ results = <<>>

\* the allocation that the returned table gives to each cell of a set
Returned(cells) == [k \in cells |-> Allocated(RowsOfCell(k))]

\* the floor of a cell, times 100: the largest rate of its overrides times
\* its demand (0 without an override)
FloorOf(cell) ==
  IF \E j \in FloorOverrides : OverrideCell(special_constraints[j]) = cell
  THEN LargestRate(cell) * CellDemand(cell) ELSE 0

\* an allocation (half units) of the cells of positive demand satisfies the
\* per-cell demand cap, the override floors and the per-period supply cap
Admissible(a, dem, floor, supply) ==
  /\ \A k \in DOMAIN a : a[k] <= 2 * dem[k] /\ 100 * a[k] >= 2 * floor[k]
  /\ \A w \in DOMAIN supply :
        SumFn([k \in {c \in DOMAIN a : c[4] = w} |-> a[k]]) <= 2 * supply[w]

\* sum of priority * allocation / demand, times the product of the demands
Satisfaction(a, weight) == SumFn([k \in DOMAIN a |-> weight[k] * a[k]])

Weights(dem, prio, common) ==
  [k \in DOMAIN dem |-> prio[<<k[1], k[2], k[3]>>] * (common \div dem[k])]

NoneBetter(all, weight, reached) == \A a \in all : Satisfaction(a, weight) <= reached

Attained(all, weight, returned) ==
  NoneBetter(all, weight, Satisfaction(returned, weight))

AdmissibleSet(dem, floor, supply, top) ==
  {a \in [DOMAIN dem -> 0..top] : Admissible(a, dem, floor, supply)}

AttainsMaximum(dem, floor, supply, prio) ==
  Attained(AdmissibleSet(dem, floor, supply, 2 * Max({0} \cup Range(dem))),
           Weights(dem, prio, ProdFn(dem)), Returned(DOMAIN dem))

\* C6: when the solve is Optimal, no allocation that satisfies
\* non-negativity, the per-period supply cap, the per-cell demand cap and
\* the override floors has a larger sum of priority * allocation / demand
\* over the cells of positive demand than the returned allocation.
C6_Optimality ==
  (Done /\ status = "Optimal") =>
    AttainsMaximum([k \in PositiveCells |-> CellDemand(k)],
                   [k \in PositiveCells |-> FloorOf(k)],
                   total_supply, priority)

\* two cells of different demand compete for a supply that is smaller than
\* their demand, and both get a row
C6_Witness ==
  /\ Done /\ status = "Optimal"
  /\ \E k1, k2 \in PositiveCells :
        /\ k1[4] = k2[4] /\ k1[4] \in SuppliedWeeks
        /\ CellDemand(k1) > CellDemand(k2)
        /\ CellDemand(k1) + CellDemand(k2) > total_supply[k1[4]]
        /\ RowsOfCell(k1) # {} /\ RowsOfCell(k2) # {}

\* C7: every returned row has demand > 0 and allocation > 0, no cell has
\* two rows, a cell of zero demand has no row, neither has a cell of the
\* 'Default' channel or region (the explored tables do not name 'Default')
\* or of a product that the demand table does not name, and a cell has a
\* row exactly when the solve gave it a positive allocation.
C7_RowsArePositiveCells ==
  Done =>
    /\ \A i \in DOMAIN results :
          /\ results[i].demand > 0 /\ results[i].allocation > 0
          /\ results[i].demand = CellDemand(RowCell(results[i]))
          /\ RowCell(results[i]) \in IndexCells
    /\ \A k \in IndexCells : Cardinality(RowsOfCell(k)) <= 1
    /\ \A k \in IndexCells : CellDemand(k) = 0 => RowsOfCell(k) = {}
    /\ \A k \in IndexCells :
          ( \/ k[2] = Default \/ k[3] = Default
            \/ k[1] \notin Range(Column(data.customer_demand.rows, "product")) )
          => RowsOfCell(k) = {}
    /\ status = "Optimal" =>
         \A k \in IndexCells :
            /\ RowsOfCell(k) # {} <=> x[k] > 0
            /\ \A i \in RowsOfCell(k) : results[i].allocation = x[k]

\* the table has rows, a cell of positive demand got nothing and has no
\* row, and neither the 'Default' cells nor the build-only product have one
C7_Witness ==
  /\ Done /\ results # <<>>
  /\ \E k \in PositiveCells : RowsOfCell(k) = {}
  /\ BuildProduct \in Range(products)
  /\ \A i \in DOMAIN results :
        /\ results[i].product # BuildProduct
        /\ results[i].channel # Default /\ results[i].region # Default

\* C8: with one period, no overrides and exactly two cells A and B of
\* positive demand, both of demand d, the composite priority of A above
\* that of B, and the period's supply S with d <= S < 2d, the returned
\* table allocates d to A and S - d to B.
C8_TwoCellScenario ==
  (Done /\ Len(weeks) = 1 /\ special_constraints = <<>>) =>
    \A A, B \in PositiveCells :
      ( /\ PositiveCells = {A, B} /\ A # B
        /\ CellDemand(A) = CellDemand(B)
        /\ priority[<<A[1], A[2], A[3]>>] > priority[<<B[1], B[2], B[3]>>]
        /\ A[4] \in SuppliedWeeks
        /\ CellDemand(A) <= total_supply[A[4]]
        /\ total_supply[A[4]] < 2 * CellDemand(A) )
      => /\ Allocated(RowsOfCell(A)) = 2 * CellDemand(A)
         /\ Allocated(RowsOfCell(B)) = 2 * (total_supply[A[4]] - CellDemand(A))

\* the scenario with d = 3 and S = 4: the cell of higher priority has a row
\* with 3 units and the other cell a row with 1 unit
C8_Witness ==
  /\ Done /\ Len(weeks) = 1 /\ special_constraints = <<>>
  /\ \E A, B \in PositiveCells :
        /\ PositiveCells = {A, B} /\ A # B
        /\ CellDemand(A) = 3 /\ CellDemand(B) = 3
        /\ priority[<<A[1], A[2], A[3]>>] > priority[<<B[1], B[2], B[3]>>]
        /\ A[4] \in SuppliedWeeks /\ total_supply[A[4]] = 4
        /\ \E i \in RowsOfCell(A) : results[i].allocation = 6
        /\ \E i \in RowsOfCell(B) : results[i].allocation = 2

\* the calls that have returned, each with its arguments and returned table
ReturnedCalls ==
  calls.finished
    \o (IF Done THEN <<[args |-> calls.args, results |-> results]>> ELSE <<>>)

\* the composite priority that a call with these arguments gives to a triple
CompositeOf(args, t) ==
  Get(IF IsNone(args[2].product) THEN DefaultProductPriorities(<<t[1]>>)
      ELSE TheDict(args[2].product), t[1], 5)
  * Get(IF IsNone(args[2].channel) THEN DefaultChannelPriorities
        ELSE TheDict(args[2].channel), t[2], 1)
  * Get(IF IsNone(args[2].region) THEN DefaultRegionPriorities(<<t[3]>>)
        ELSE TheDict(args[2].region), t[3], 1)

\* the allocation (half units) that a returned table gives to a cell
AllocationIn(table, cell) ==
  SumFn([i \in {j \in DOMAIN table : RowCell(table[j]) = cell} |->
           table[i].allocation])

\* the triples that have a cell of positive demand
PositiveTriples == {<<k[1], k[2], k[3]>> : k \in PositiveCells}

\* call `high` differs from call `low` in that the composite priority of
\* triple t is larger, the tables, the overrides and the composite priority
\* of every other triple of positive demand being the same
RaisesOnly(low, high, t) ==
  /\ low.args[1] = high.args[1] /\ low.args[3] = high.args[3]
  /\ CompositeOf(high.args, t) > CompositeOf(low.args, t)
  /\ \A u \in PositiveTriples \ {t} :
        CompositeOf(high.args, u) = CompositeOf(low.args, u)

\* C9: of two calls on the same tables and overrides, of which one gives a
\* larger composite priority to one triple and the same composite priority
\* to every other triple, that one allocates to no cell of the triple less
\* than the other call does.
C9_PriorityMonotone ==
  \A i, j \in DOMAIN ReturnedCalls : \A t \in PositiveTriples :
    RaisesOnly(ReturnedCalls[i], ReturnedCalls[j], t) =>
      \A k \in PositiveCells :
        <<k[1], k[2], k[3]>> = t =>
          AllocationIn(ReturnedCalls[j].results, k)
            >= AllocationIn(ReturnedCalls[i].results, k)

\* a later call raises the priority of one product only, and a cell of that
\* product, which got nothing before, now gets a row at the cost of the
\* other product's cell
C9_Witness ==
  \E i, j \in DOMAIN ReturnedCalls : \E t \in PositiveTriples :
    /\ i < j
    /\ RaisesOnly(ReturnedCalls[i], ReturnedCalls[j], t)
    /\ \E k, other \in PositiveCells :
          /\ <<k[1], k[2], k[3]>> = t /\ other # k
          /\ AllocationIn(ReturnedCalls[i].results, k) = 0
          /\ AllocationIn(ReturnedCalls[j].results, k) > 0
          /\ AllocationIn(ReturnedCalls[j].results, other)
               < AllocationIn(ReturnedCalls[i].results, other)

\* C10: any two calls with the same tables, priority maps and overrides
\* return the same table, whatever was called in between; and while a call
\* runs, the caller's tables, priority maps and overrides are what the
\* caller passed.
C10_Idempotent ==
  /\ inputs = calls.args
  /\ \A i, j \in DOMAIN ReturnedCalls :
        ReturnedCalls[i].args = ReturnedCalls[j].args
          => ReturnedCalls[i].results = ReturnedCalls[j].results

\* the first and the third call have the same arguments and return the same
\* rows, while the call between them had other priorities and returned a
\* different table
C10_Witness ==
  /\ Done /\ Len(ReturnedCalls) = 3
  /\ ReturnedCalls[1].args = ReturnedCalls[3].args
  /\ ReturnedCalls[1].results = ReturnedCalls[3].results
  /\ ReturnedCalls[1].results # <<>>
  /\ ReturnedCalls[2].args # ReturnedCalls[1].args
  /\ ReturnedCalls[2].results # ReturnedCalls[1].results

Summarised == pc = "summarised"

ViewNames == {"product", "product_week", "channel_region", "week"}

\* the rows of the returned table that a view counts under a group key
RowsOfGroup(view, key) ==
  {i \in DOMAIN results :
     CASE view = "product" -> results[i].product = key[1]
       [] view = "product_week" ->
            results[i].product = key[1] /\ results[i].week = key[2]
       [] view = "channel_region" ->
            /\ results[i].product = key[1] /\ results[i].channel = key[2]
            /\ results[i].region = key[3]
       [] view = "week" -> results[i].week = key[1]}

\* the column sums of a set of rows of the returned table
DemandOfRows(rows) == SumFn([i \in rows |-> results[i].demand])

\* C13: for a returned table with rows, the summary holds the views by
\* product, by (product, week), by (product, channel, region) and by week;
\* every row falls in a group of each view, and every group has as demand
\* and allocation the sums over exactly the rows with its key and as
\* satisfaction its allocation divided by its demand.
C13_AggregationViews ==
  (Summarised /\ results # <<>>) =>
    /\ DOMAIN summary = ViewNames
    /\ \A view \in ViewNames :
          /\ \A i \in DOMAIN results :
                \E key \in DOMAIN summary[view] : i \in RowsOfGroup(view, key)
          /\ \A key \in DOMAIN summary[view] :
                /\ RowsOfGroup(view, key) # {}
                /\ summary[view][key].demand = DemandOfRows(RowsOfGroup(view, key))
                /\ summary[view][key].allocation = Allocated(RowsOfGroup(view, key))
                /\ summary[view][key].satisfaction.kind = "number"
                /\ summary[view][key].satisfaction.num
                     * 2 * DemandOfRows(RowsOfGroup(view, key))
                   = Allocated(RowsOfGroup(view, key))
                     * summary[view][key].satisfaction.den

\* the by-product view has a group of two rows, of two periods, with
\* different satisfaction, and the by-week view a group of two products
C13_Witness ==
  /\ Summarised /\ results # <<>>
  /\ \E key \in DOMAIN summary["product"] :
        \E i, j \in RowsOfGroup("product", key) :
           /\ results[i].week # results[j].week
           /\ results[i].allocation * results[j].demand
                # results[j].allocation * results[i].demand
  /\ \E key \in DOMAIN summary["week"] :
        Cardinality(RowsOfGroup("week", key)) = 2

\* the sum of a column of a view over its groups
ViewTotal(view, column) ==
  SumFn([key \in DOMAIN summary[view] |-> summary[view][key][column]])

\* C14: in every view of the summary, the demand of the groups sums to the
\* demand of all rows of the returned table and the allocation of the groups
\* to the allocation of all rows; a table with rows has the by-week view.
C14_AggregationConsistency ==
  Summarised =>
    /\ results # <<>> => "week" \in DOMAIN summary
    /\ \A view \in DOMAIN summary :
          /\ ViewTotal(view, "demand") = DemandOfRows(DOMAIN results)
          /\ ViewTotal(view, "allocation") = Allocated(DOMAIN results)

\* the by-week view has two groups and one of them two rows, so that a total
\* is a sum over groups of sums over rows
C14_Witness ==
  /\ Summarised /\ "week" \in DOMAIN summary
  /\ Cardinality(DOMAIN summary["week"]) = 2
  /\ \E key \in DOMAIN summary["week"] : Cardinality(RowsOfGroup("week", key)) = 2
  /\ ViewTotal("week", "allocation") = Allocated(DOMAIN results)
  /\ ViewTotal("week", "allocation") < 2 * ViewTotal("week", "demand")

\* C15 (as claimed): get_summary_stats returns the four views for every
\* returned table, the table without rows included.
C15_FourViewsAlways == Summarised => DOMAIN summary = ViewNames

\* C16: every group of every view of the summary of a returned table has
\* demand > 0, and its satisfaction is a number above 0 and at most 1.  (No
\* group of demand 0 arises, so no satisfaction is NaN or inf.)
C16_NoZeroDemandGroup ==
  Summarised =>
    \A view \in DOMAIN summary : \A key \in DOMAIN summary[view] :
      /\ summary[view][key].demand > 0
      /\ summary[view][key].satisfaction.kind = "number"
      /\ summary[view][key].satisfaction.num > 0
      /\ summary[view][key].satisfaction.num <= summary[view][key].satisfaction.den

\* a group of two rows is satisfied in part, one of its rows in full
C16_Witness ==
  /\ Summarised /\ DOMAIN summary = ViewNames
  /\ \E view \in ViewNames : \E key \in DOMAIN summary[view] :
        /\ Cardinality(RowsOfGroup(view, key)) = 2
        /\ summary[view][key].satisfaction.num < summary[view][key].satisfaction.den
        /\ \E i \in RowsOfGroup(view, key) :
              results[i].allocation = 2 * results[i].demand

\* the index sets are defined
Extracted == pc # "extract"

NoDuplicates(list) == Cardinality(Range(list)) = Len(list)

\* the values of a column of the detailed-demand table / of the build table
DemandValues(column) ==
  {data.customer_demand.rows[i][column] : i \in DOMAIN data.customer_demand.rows}
BuildProducts == {data.actual_build[i].product : i \in DOMAIN data.actual_build}

\* the columns of the detailed-demand table other than the identifying ones
PeriodColumns ==
  SelectSeq(data.customer_demand.columns,
            LAMBDA col : col \notin {"product", "channel", "region"})

\* C17: the products are those of the detailed-demand table and of the build
\* table; the channels and the regions are those of the detailed-demand
\* table and 'Default'; no list names a value twice; the periods are the
\* period columns of the detailed-demand table or, when that table has no
\* rows and the supply table has some, the weeks of the supply table.
C17_IndexSets ==
  Extracted =>
    /\ Range(products) = DemandValues("product") \cup BuildProducts
    /\ Range(channels) = DemandValues("channel") \cup {Default}
    /\ Range(regions) = DemandValues("region") \cup {Default}
    /\ NoDuplicates(products) /\ NoDuplicates(channels) /\ NoDuplicates(regions)
    /\ data.customer_demand.rows # <<>> => weeks = PeriodColumns
    /\ (data.customer_demand.rows = <<>> /\ data.total_supply # <<>>) =>
          /\ Range(weeks) = SuppliedWeeks
          /\ NoDuplicates(weeks)

\* the detailed-demand table has no rows: the build table gives the only
\* product, 'Default' is the only channel and region, and the supply table
\* gives the periods
C17_Witness ==
  /\ Extracted
  /\ data.customer_demand.rows = <<>>
  /\ products = <<BuildProduct>>
  /\ channels = <<Default>> /\ regions = <<Default>>
  /\ weeks = <<Wk1, Wk2>>

\* the demand map is filled
Converted == pc \notin {"extract", "priorities", "convert"}

\* the rows of the detailed-demand table that name the triple of a cell
RowsNaming(cell) ==
  {i \in DOMAIN data.customer_demand.rows :
     <<data.customer_demand.rows[i].product, data.customer_demand.rows[i].channel,
       data.customer_demand.rows[i].region>> = <<cell[1], cell[2], cell[3]>>}

\* C18: after the conversion the demand map has a value for every
\* (product, channel, region, period) of the index sets: 0 for a combination
\* that no row of the detailed-demand table names, and the sum of the
\* values that the rows naming it hold for the period otherwise.
C18_DenseDemand ==
  Converted =>
    /\ IndexCells \subseteq DOMAIN demand
    /\ \A k \in IndexCells :
          /\ RowsNaming(k) = {} => demand[k] = 0
          /\ demand[k] = CellDemand(k)

\* two rows name the same triple and the demand of its cell is the sum of
\* their values, both above 0, while the 'Default' cells have demand 0
C18_Witness ==
  /\ Converted
  /\ \E k \in IndexCells :
        /\ Cardinality(RowsNaming(k)) = 2
        /\ \A i \in RowsNaming(k) :
              Float(data.customer_demand.rows[i].vals[k[4]]) > 0
        /\ demand[k] = SumFn([i \in RowsNaming(k) |->
                                Float(data.customer_demand.rows[i].vals[k[4]])])
        /\ demand[<<k[1], Default, Default, k[4]>>] = 0

\* the values of the detailed-demand table, as (row, period) pairs, that
\* float() refuses
Unparsed ==
  {<<i, w>> \in (DOMAIN data.customer_demand.rows) \X Range(weeks) :
     /\ w \in DOMAIN data.customer_demand.rows[i].vals
     /\ data.customer_demand.rows[i].vals[w].kind = "str"
     /\ ~data.customer_demand.rows[i].vals[w].parses}

\* the cell that a (row, period) pair of the detailed-demand table names
CellOfValue(v) ==
  <<data.customer_demand.rows[v[1]].product, data.customer_demand.rows[v[1]].channel,
    data.customer_demand.rows[v[1]].region, v[2]>>

\* C19 (as claimed): the cell of a value that is not a number has demand 0
\* and no returned row, a warning is recorded, and the call returns.
C19_UnparsedCellIsZero ==
  (Done /\ Unparsed # {}) =>
    /\ warnings > 0
    /\ \A v \in Unparsed :
          demand[CellOfValue(v)] = 0 /\ RowsOfCell(CellOfValue(v)) = {}

\* C19 (amended): a value that is not a number adds 0 to the demand of its
\* cell, which is the sum of the other values of the cell; a cell that has
\* no other value above 0 has demand 0 and no returned row; one warning is
\* recorded for each such value; and the call solves the program of the
\* demands so obtained and returns its allocation.
C19_UnparsedValueIsZero ==
  (Done /\ Unparsed # {}) =>
    /\ warnings = Cardinality(Unparsed)
    /\ \A v \in Unparsed :
          /\ demand[CellOfValue(v)] = CellDemand(CellOfValue(v))
          /\ CellDemand(CellOfValue(v)) = 0 => RowsOfCell(CellOfValue(v)) = {}
    /\ status \in {"Optimal", "Infeasible"}
    /\ status = "Optimal" =>
          /\ AttainsMaximum([k \in PositiveCells |-> CellDemand(k)],
                            [k \in PositiveCells |-> FloorOf(k)],
                            total_supply, priority)
          /\ \A k \in PositiveCells : RowsOfCell(k) # {} <=> x[k] > 0

\* the value of one product is not a number: a warning is recorded, its
\* cell has no row, and the cell of the other product is allocated in full
C19_Witness ==
  /\ Done /\ warnings = 1
  /\ \E v \in Unparsed :
        /\ RowsOfCell(CellOfValue(v)) = {}
        /\ \E i \in DOMAIN results :
              /\ results[i].week = v[2]
              /\ results[i].allocation = 2 * results[i].demand

\* the identifying columns of the four tables, and the tables of the file
\* (its odd lines are the headers) that lack one of them
RequiredColumns ==
  <<{"week", "total_supply"}, {"week", "product", "actual_build"},
    {"product"}, {"product", "channel", "region"}>>
MissingColumns ==
  UNION {RequiredColumns[t] \ Range(file[2 * t - 1]) : t \in 1..4}
FileRead == file # <<>> /\ pc # "load"

\* C20: when one of the four source tables lacks a required identifying
\* column, the run fails with a SchemaError that names the missing column
\* and reaches the caller; nothing is recovered internally: no substitute
\* data is used and no allocation is computed.
C20_SchemaError ==
  (FileRead /\ MissingColumns # {}) =>
    /\ source # "mock"
    /\ status = "Not Solved" /\ results = <<>>
    /\ pc \in {"extract", "raised"}
    /\ pc = "raised" =>
         \E col \in MissingColumns :
           raised = <<[type |-> "SchemaError", key |-> col]>>

\* the first of two calls, when the second has returned
SecondDone == Done /\ Len(calls.finished) = 1
FirstOf == calls.finished[1]

\* the override names a cell that is none of the index sets, or one that
\* no row of the detailed-demand table gives a positive demand
IgnoredOverride(o) ==
  OverrideCell(o) \notin IndexCells \/ CellDemand(OverrideCell(o)) = 0

\* the second call had the tables and priority maps of the first and no
\* overrides, and the first call had overrides, every one of them ignored
WithoutIgnoredOverrides ==
  /\ SecondDone
  /\ FirstOf.args[1] = data /\ FirstOf.args[2] = arg_priorities
  /\ FirstOf.args[3] # <<>> /\ special_constraints = <<>>
  /\ \A j \in DOMAIN FirstOf.args[3] : IgnoredOverride(FirstOf.args[3][j])

\* C21: a call whose overrides all name a cell of demand 0 or a cell that is
\* not of the index sets returns the table that the same call without the
\* overrides returns, and its solve ends with the same status: the override
\* does not make it infeasible.
C21_IgnoredOverride ==
  WithoutIgnoredOverrides =>
    (results = FirstOf.results /\ status = FirstOf.status)

\* the override asked for all of the demand of a cell whose row holds 0,
\* and both calls returned the same rows for the other product
C21_Witness ==
  /\ WithoutIgnoredOverrides
  /\ FirstOf.args[3][1].satisfaction_rate = 100
  /\ OverrideCell(FirstOf.args[3][1]) \in IndexCells
  /\ results # <<>> /\ results = FirstOf.results

\* the second call differs from the first in quantities of the build table
\* or in values of the forecast table only
OtherBuildOrForecast ==
  /\ SecondDone
  /\ FirstOf.args[2] = arg_priorities /\ FirstOf.args[3] = special_constraints
  /\ FirstOf.args[1].total_supply = data.total_supply
  /\ FirstOf.args[1].customer_demand = data.customer_demand
  /\ FirstOf.args[1] # data

\* C22: two calls that differ only in the quantities of the actual_build
\* table or in values of the demand_forecast table return the same table.
C22_BuildAndForecastUnread ==
  OtherBuildOrForecast => results = FirstOf.results

\* the build table said that one unit of the product was built, then that
\* none was, and both calls allocate two units to a cell of that product
C22_Witness ==
  /\ OtherBuildOrForecast
  /\ \E i \in DOMAIN data.actual_build :
        /\ data.actual_build[i].actual_build = 0
        /\ FirstOf.args[1].actual_build[i].actual_build = 1
        /\ \E j \in DOMAIN results :
              /\ results[j].product = data.actual_build[i].product
              /\ results[j].week = data.actual_build[i].week
              /\ results[j].allocation = 4
  /\ results = FirstOf.results

\* the table that this call returns for an Optimal solve in which every
\* variable is 0
AllZeroTable ==
  ReturnedTable("Optimal", NestedLoop(products, channels, regions, weeks),
                demand, [k \in IndexCells |-> 0], priority)

\* C23 (as claimed): a solve that is not Optimal produces an outcome that
\* carries the failure class: what the call returns differs from what it
\* returns for an Optimal solve in which every allocation is 0.
C23_FailureClassified ==
  (Done /\ status # "Optimal") => results # AllZeroTable

\* C24 (as claimed): every value of the demand map that
\* optimize_supply_allocation builds is >= 0, whatever the loader delivered.
C24_DemandNonNegative ==
  \A k \in DOMAIN demand : demand[k] >= 0

\* the rows of the supply table for a period, and the sum of their supplies
SupplyRowsOf(w) == {i \in DOMAIN data.total_supply : data.total_supply[i].week = w}
SummedSupply(w) == SumFn([i \in SupplyRowsOf(w) |-> data.total_supply[i].total_supply])

\* C25 (as claimed): when the supply table holds several rows for a period,
\* the run is rejected or the cap of the period is the sum of the supplies
\* of those rows.
C25_DuplicateSupplySummed ==
  Done =>
    \A w \in SuppliedWeeks :
      Cardinality(SupplyRowsOf(w)) > 1 =>
        \/ raised # <<>>
        \/ /\ total_supply[w] = SummedSupply(w)
           /\ \E i \in DOMAIN prob.constraints :
                 /\ prob.constraints[i].sense = "<="
                 /\ prob.constraints[i].vars = {k \in IndexCells : k[4] = w}
                 /\ prob.constraints[i].num = SummedSupply(w) * prob.constraints[i].den

\* the total demand of the cells of a period
WeekDemand(w) == SumFn([k \in {c \in PositiveCells : c[4] = w} |-> CellDemand(k)])

\* every cell of positive demand has a composite priority above 0
PrioritiesPositive == \A k \in PositiveCells : priority[<<k[1], k[2], k[3]>>] > 0

\* C26: with every composite priority above 0 and no overrides, the rows of
\* every period of the supply table allocate together the smaller of the
\* period's supply and the period's total demand: no supply is left unused
\* while a cell of the period is unsatisfied.
C26_WorkConservation ==
  (Done /\ special_constraints = <<>> /\ PrioritiesPositive) =>
    \A w \in SuppliedWeeks :
      Allocated(RowsOfWeek(w)) = 2 * Min({total_supply[w], WeekDemand(w)})

\* two cells compete for a supply below their demand and the supply is used
\* up, while in another period the demand is within the supply and is met
C26_Witness ==
  /\ Done /\ special_constraints = <<>> /\ PrioritiesPositive
  /\ \E w, v \in SuppliedWeeks :
        /\ Cardinality({c \in PositiveCells : c[4] = w}) = 2
        /\ 0 < total_supply[w] /\ total_supply[w] < WeekDemand(w)
        /\ Allocated(RowsOfWeek(w)) = 2 * total_supply[w]
        /\ v # w /\ 0 < WeekDemand(v) /\ WeekDemand(v) <= total_supply[v]
        /\ Allocated(RowsOfWeek(v)) = 2 * WeekDemand(v)

\* the composite priority of a cell
PriorityOfCell(k) == priority[<<k[1], k[2], k[3]>>]

\* priority / demand of cell a is above priority / demand of cell b
RatioAbove(a, b) ==
  PriorityOfCell(a) * CellDemand(b) > PriorityOfCell(b) * CellDemand(a)

\* C27: with no overrides, of two cells of positive demand of the same
\* period of the supply table, the one with the larger priority / demand is
\* satisfied in full before the other gets anything; among cells of equal
\* priority that is the cell of smaller demand.
C27_RatioGreedy ==
  (Done /\ special_constraints = <<>>) =>
    \A a, b \in PositiveCells :
      ( /\ a[4] = b[4] /\ a[4] \in SuppliedWeeks
        /\ RatioAbove(a, b)
        /\ Allocated(RowsOfCell(b)) > 0 )
      => Allocated(RowsOfCell(a)) = 2 * CellDemand(a)

\* two cells of equal priority: the one of smaller demand is satisfied in
\* full and the other one in part
C27_Witness ==
  /\ Done /\ special_constraints = <<>>
  /\ \E a, b \in PositiveCells :
        /\ a[4] = b[4] /\ a[4] \in SuppliedWeeks
        /\ PriorityOfCell(a) = PriorityOfCell(b)
        /\ CellDemand(a) < CellDemand(b)
        /\ Allocated(RowsOfCell(a)) = 2 * CellDemand(a)
        /\ 0 < Allocated(RowsOfCell(b))
        /\ Allocated(RowsOfCell(b)) < 2 * CellDemand(b)

\* the tables with the supply of period w or the demand of one row in
\* period w set to another quantity
OtherQuantities(d, w) ==
  {[d EXCEPT !.total_supply[i].total_supply = n] :
     i \in {j \in DOMAIN d.total_supply : d.total_supply[j].week = w},
     n \in 0..MaxSupply}
  \cup
  {[d EXCEPT !.customer_demand.rows[i].vals[w] = IntValue(n)] :
     i \in {j \in DOMAIN d.customer_demand.rows :
              w \in DOMAIN d.customer_demand.rows[j].vals},
     n \in 0..MaxDemand}

\* the linear program that the call builds for tables d, the index sets,
\* priorities and overrides being those of the call
LpFor(d) ==
  LpOf(NestedLoop(products, channels, regions, weeks), weeks, TotalSupplyOf(d),
       DemandOf(d, products, channels, regions, weeks), priority,
       special_constraints)

\* the optimal solutions of a linear program (none when it is infeasible)
OptimaOf(lp) ==
  {o.x : o \in {out \in SolveLp(lp, VarCaps(lp), VarFloors(lp)) :
                  out.status = "Optimal"}}

\* what the cells of period w add to the objective at a solution, times the
\* product of their demands
ContributionOf(lp, w, a) ==
  LET terms == {i \in DOMAIN lp.objective : lp.objective[i].var[4] = w}
      common == ProdFn([i \in terms |-> lp.objective[i].den])
  IN SumFn([i \in terms |->
              lp.objective[i].num * (common \div lp.objective[i].den)
                * a[lp.objective[i].var]])

\* the optimal solutions, each cut down to the cells of period w and paired
\* with what these cells add to the objective
OptimaOfWeek(lp, optima, w) ==
  {<<[k \in {c \in LpVars(lp) : c[4] = w} |-> a[k]], ContributionOf(lp, w, a)>> :
     a \in optima}

\* the other program is infeasible, or period by period its optimal
\* solutions are those of the program
SameInWeeks(lp, optima, other, other_optima, ws) ==
  other_optima # {} =>
    \A w \in ws : OptimaOfWeek(lp, optima, w) = OptimaOfWeek(other, other_optima, w)

SameOutside(lp, optima, other, v) ==
  SameInWeeks(lp, optima, other, OptimaOf(other), Range(weeks) \ {v})

PeriodsIndependent(lp, optima) ==
  \A v \in Range(weeks) : \A d \in OtherQuantities(data, v) \ {data} :
    SameOutside(lp, optima, LpFor(d), v)

\* C28: on a feasible instance, another supply or another demand in period
\* v, the instance staying feasible, leaves the optimal allocations of every
\* other period w and what they add to the objective as they are: supply
\* that period v does not use is not available to period w.
C28_PeriodIndependence ==
  (pc = "results" /\ status = "Optimal") => PeriodsIndependent(prob, OptimaOf(prob))

\* a period is short of supply while the other period, with demand, has no
\* supply at all and could have more
C28_Witness ==
  /\ pc = "results" /\ status = "Optimal"
  /\ \E w, v \in Range(weeks) :
        /\ w # v /\ {w, v} \subseteq DOMAIN total_supply
        /\ total_supply[v] = 0
        /\ \E d \in OtherQuantities(data, v) : TotalSupplyOf(d)[v] = 1
        /\ WeekDemand(w) > total_supply[w] /\ total_supply[w] > 0
        /\ \E k \in PositiveCells : k[4] = w /\ x[k] > 0

\* C29: for every period with a returned row, the demand that the by-week
\* view of the summary reports is the total demand of all the cells of
\* positive demand of that period in the input, so that the satisfaction
\* reported is the part of everything requested that was met.
C29_TrueGroupSatisfaction ==
  (Summarised /\ results # <<>>) =>
    \A w \in {results[i].week : i \in DOMAIN results} :
      /\ <<w>> \in DOMAIN summary["week"]
      /\ summary["week"][<<w>>].demand = WeekDemand(w)

====
